---- MODULE Spec2Model ----
(***************************************************************************)
(* A model of AspenIp21Connector (data_agent_aspen_ip21/connector.py):     *)
(* the connection life cycle, the tag-address resolver, the attribute map, *)
(* the per-group queries and the assembly of their results.                *)
(*                                                                         *)
(* Python strings are modelled as sequences of one-character strings, so   *)
(* that split, replace, concatenation and LIKE matching are computed and   *)
(* not assumed.  Every cell value of a row is such a sequence; None and    *)
(* False are the one-token sequences PyNone and PyFalse, which no          *)
(* character sequence equals.                                              *)
(***************************************************************************)
EXTENDS Integers, Sequences, FiniteSets, TLC

VARIABLES
    conn,           \* self._conn: PyNone, or the open pyodbc connection
    default_group,  \* self._default_group
    conn_string,    \* self._conn_string
    db,             \* the backend's tables: group name -> set of rows
    op,             \* the last call made on the connector ("none" at first)
    args,           \* the arguments of that call (of the call to make, in the one-call specifications)
    outcome,        \* "ok", or the exception the call raised
    result,         \* the value the call returned (PyNone when it raised)
    log,            \* the cursor events of the call, in order
    last_change     \* history: the last call that changed the state

vars == <<conn, default_group, conn_string, db, op, args, outcome, result, log, last_change>>

----------------------------------------------------------------------------
(* Python values *)

PyNone == <<"None">>
PyFalse == <<"False">>

\* str(None), as an f-string formats it
NoneText == <<"N", "o", "n", "e">>

\* f"{v}" for a value that is None or a string
Format(v) == IF v = PyNone THEN NoneText ELSE v

GROUP_TAG_DELIMITER == ":"

\* d in s
Contains(s, d) == \E i \in 1..Len(s) : s[i] = d

\* s.find(d) for a d that occurs in s (1-based)
IndexOf(s, d) == CHOOSE i \in 1..Len(s) : s[i] = d /\ \A j \in 1..(i - 1) : s[j] # d

\* s.replace(x, y) for one-character x and y
Replace(s, x, y) == [i \in 1..Len(s) |-> IF s[i] = x THEN y ELSE s[i]]

\* s.split(d, 1): at most two pieces
Split1(s, d) ==
    IF Contains(s, d)
    THEN <<SubSeq(s, 1, IndexOf(s, d) - 1), SubSeq(s, IndexOf(s, d) + 1, Len(s))>>
    ELSE <<s>>

\* s.split(d): every piece
RECURSIVE SplitAll(_, _)
SplitAll(s, d) ==
    IF Contains(s, d)
    THEN <<SubSeq(s, 1, IndexOf(s, d) - 1)>> \o SplitAll(SubSeq(s, IndexOf(s, d) + 1, Len(s)), d)
    ELSE <<s>>

----------------------------------------------------------------------------
(* _tag_list_to_group_map: a dict in insertion order, as a sequence of     *)
(* [grp, tags] entries                                                     *)

\* the fqn_tags comprehension
FqnTag(dg, t) ==
    IF Contains(t, GROUP_TAG_DELIMITER)
    THEN t
    ELSE Format(dg) \o <<GROUP_TAG_DELIMITER>> \o t

\* lst = t.replace("*", "%").split(delimiter, 1)
SplitTag(t) == Split1(Replace(t, "*", "%"), GROUP_TAG_DELIMITER)

\* setdefault on a map that lists its newest key first
SetDefaultPrepend(gm, table_name, tag) ==
    IF \E i \in 1..Len(gm) : gm[i].grp = table_name
    THEN [i \in 1..Len(gm) |->
            IF gm[i].grp = table_name
            THEN [grp |-> gm[i].grp, tags |-> Append(gm[i].tags, tag)]
            ELSE gm[i]]
    ELSE <<[grp |-> table_name, tags |-> <<tag>>]>> \o gm

\* group_map.setdefault(table_name, []).append(tag)
SetDefaultAppend(gm, table_name, tag) ==
    IF \E i \in 1..Len(gm) : gm[i].grp = table_name
    THEN [i \in 1..Len(gm) |->
            IF gm[i].grp = table_name
            THEN [grp |-> gm[i].grp, tags |-> Append(gm[i].tags, tag)]
            ELSE gm[i]]
    ELSE Append(gm, [grp |-> table_name, tags |-> <<tag>>])

RECURSIVE GroupMapFold(_, _, _)
GroupMapFold(dg, fqn, gm) ==
    IF fqn = <<>> THEN gm
    ELSE LET t == Head(fqn)
             lst == SplitTag(t)
             table_name == IF Len(lst) = 1 THEN dg ELSE lst[1]
             tag == IF Len(lst) = 1 THEN t ELSE lst[2]
         IN  GroupMapFold(dg, Tail(fqn), SetDefaultAppend(gm, table_name, tag))

tag_list_to_group_map(dg, tags) ==
    GroupMapFold(dg, [i \in 1..Len(tags) |-> FqnTag(dg, tags[i])], <<>>)

\* the keys of a group map, and the list stored under a key
Groups(gm) == {gm[i].grp : i \in 1..Len(gm)}
TagsOf(gm, g) == gm[CHOOSE i \in 1..Len(gm) : gm[i].grp = g].tags

----------------------------------------------------------------------------
(* The attribute maps *)

NativeAttrs ==
    <<"NAME", "IP_TAG_TYPE", "IP_DESCRIPTION", "IP_ENG_UNITS", "IP_DCS_NAME",
      "IP_TREND_TIME", "IP_TREND_VALUE">>

StandardAttrs ==
    <<"Name", "Type", "Description", "EngUnits", "Path", "Timestamp", "Value">>

Range(f) == {f[x] : x \in DOMAIN f}

MAP_IP21ATTRIBUTE_2_STANDARD ==
    [n \in Range(NativeAttrs) |->
        StandardAttrs[CHOOSE i \in 1..Len(NativeAttrs) : NativeAttrs[i] = n]]

\* {v: k for k, v in MAP_IP21ATTRIBUTE_2_STANDARD.items()}
MAP_STANDARD_ATTR_TO_IP21 ==
    [s \in Range(MAP_IP21ATTRIBUTE_2_STANDARD) |->
        CHOOSE n \in DOMAIN MAP_IP21ATTRIBUTE_2_STANDARD : MAP_IP21ATTRIBUTE_2_STANDARD[n] = s]

standard_to_native_attr_list(attrs) ==
    [i \in 1..Len(attrs) |->
        IF attrs[i] \in DOMAIN MAP_STANDARD_ATTR_TO_IP21
        THEN MAP_STANDARD_ATTR_TO_IP21[attrs[i]]
        ELSE attrs[i]]

----------------------------------------------------------------------------
(* The backend: what cursor.execute and the fetches return.  A table is    *)
(* [columns, rows]; a row is a function from column name to cell value.    *)

\* NAME LIKE pattern: '%' matches any substring, '_' any one character
RECURSIVE Like(_, _)
Like(s, p) ==
    IF p = <<>> THEN s = <<>>
    ELSE IF Head(p) = "%" THEN Like(s, Tail(p)) \/ (s # <<>> /\ Like(Tail(s), p))
    ELSE s # <<>> /\ (Head(p) = "_" \/ Head(p) = Head(s)) /\ Like(Tail(s), Tail(p))

\* the collation order of the characters the model uses
CharRank(c) ==
    CASE c = "%" -> 1 [] c = "*" -> 2 [] c = ":" -> 3 [] c = "_" -> 4
      [] c = "a" -> 5 [] c = "b" -> 6 [] c = "c" -> 7 [] OTHER -> 8

RECURSIVE StrLess(_, _)
StrLess(a, b) ==
    IF b = <<>> THEN FALSE
    ELSE IF a = <<>> THEN TRUE
    ELSE IF Head(a) = Head(b) THEN StrLess(Tail(a), Tail(b))
    ELSE CharRank(Head(a)) < CharRank(Head(b))

\* ORDER BY NAME ASC, keeping the scan order among equal names
RECURSIVE InsertByName(_, _)
InsertByName(sorted, r) ==
    IF sorted = <<>> THEN <<r>>
    ELSE IF StrLess(r["NAME"], Head(sorted)["NAME"]) THEN <<r>> \o sorted
    ELSE <<Head(sorted)>> \o InsertByName(Tail(sorted), r)

RECURSIVE OrderByName(_)
OrderByName(rows) ==
    IF rows = <<>> THEN <<>>
    ELSE InsertByName(OrderByName(SubSeq(rows, 1, Len(rows) - 1)), rows[Len(rows)])

Reverse(s) == [i \in 1..Len(s) |-> s[Len(s) + 1 - i]]

RECURSIVE SelectSeq2(_, _, _)
\* the rows of a sequence that satisfy keep, in order (keep: a set of indices)
SelectSeq2(rows, keep, i) ==
    IF i > Len(rows) THEN <<>>
    ELSE (IF i \in keep THEN <<rows[i]>> ELSE <<>>) \o SelectSeq2(rows, keep, i + 1)

\* SELECT DISTINCT: a row equal to an earlier one is dropped
Distinct(rows) ==
    SelectSeq2(rows, {i \in 1..Len(rows) : \A j \in 1..(i - 1) : rows[j] # rows[i]}, 1)

FirstN(rows, n) == SubSeq(rows, 1, IF n < Len(rows) THEN n ELSE Len(rows))

\* the timestamps of the model are one digit: their order
TimeOf(ts) ==
    CASE ts = <<"0">> -> 0 [] ts = <<"1">> -> 1 [] ts = <<"2">> -> 2
      [] ts = <<"3">> -> 3 [] OTHER -> 4

\* One SELECT.  q = [table, select, like, time_col, ge, le, order, distinct, top];
\* scan is the order in which the backend happens to read the table.
ExecuteSelect(tables, scan, q) ==
    IF q.table \notin DOMAIN tables
    THEN [err |-> "ProgrammingError", columns |-> <<>>, rows |-> <<>>]
    ELSE LET t == tables[q.table]
             cols == IF q.select = <<"*">> THEN t.columns ELSE q.select
             stored == IF scan = "fwd" THEN t.rows ELSE Reverse(t.rows)
             hit == {i \in 1..Len(stored) :
                        /\ \E k \in 1..Len(q.like) : Like(stored[i]["NAME"], q.like[k])
                        /\ q.ge # PyNone => TimeOf(stored[i][q.time_col]) >= TimeOf(q.ge)
                        /\ q.le # PyNone => TimeOf(stored[i][q.time_col]) <= TimeOf(q.le)}
             matched == SelectSeq2(stored, hit, 1)
             ordered == IF q.order THEN OrderByName(matched) ELSE matched
             projected == [i \in 1..Len(ordered) |-> [c \in Range(cols) |-> ordered[i][c]]]
             unique == IF q.distinct THEN Distinct(projected) ELSE projected
         IN  IF \E c \in Range(cols) \cup {"NAME"} \cup (IF q.ge # PyNone \/ q.le # PyNone THEN {q.time_col} ELSE {}) :
                    c \notin Range(t.columns)
             THEN [err |-> "ProgrammingError", columns |-> <<>>, rows |-> <<>>]
             ELSE [err |-> "", columns |-> cols,
                   rows |-> IF q.top > 0 THEN FirstN(unique, q.top) ELSE unique]

----------------------------------------------------------------------------
(* The connector's operations.  Each returns [outcome, result, log]: the   *)
(* exception raised or "ok", the value returned, and the cursor events.    *)

Handle == <<"pyodbc.Connection">>

\* the property connected
connected(c) == c # PyNone

Raised(exc, lg) == [outcome |-> exc, result |-> PyNone, log |-> lg]
Returned(val, lg) == [outcome |-> "ok", result |-> val, log |-> lg]

\* the decorator @active_connection of data_agent.abstract_connector
active_connection(c, body) ==
    IF ~connected(c) THEN Raised("PreconditionError", <<>>) ELSE body

Event(what, grp) == [ev |-> what, grp |-> grp, limit |-> "none"]
LimitedEvent(what, grp, limit) == [ev |-> what, grp |-> grp, limit |-> limit]

\* tbl.NAME.like(tag): the patterns without the trailing wildcard
LikePatternsExact(tags) == tags

\* tbl.NAME.like(f"{tag}%") for every tag of the group, OR-ed
LikePatterns(tags) == [i \in 1..Len(tags) |-> tags[i] \o <<"%">>]

\* dict(zip(columns, row), **{"HasChildren": False})
RowDict(columns, row) ==
    [c \in Range(columns) \cup {"HasChildren"} |->
        IF c = "HasChildren" THEN PyFalse ELSE row[c]]

\* {key(row): RowDict(row) for row in rows}: a later row replaces an earlier one
RowsToDict(columns, rows, prefix) ==
    [k \in {prefix \o rows[i]["NAME"] : i \in 1..Len(rows)} |->
        RowDict(columns,
                rows[CHOOSE i \in 1..Len(rows) :
                        /\ prefix \o rows[i]["NAME"] = k
                        /\ \A j \in (i + 1)..Len(rows) : prefix \o rows[j]["NAME"] # k])]

\* d.update(e)
Update(d, e) == e @@ d

EmptyDict == [k \in {} |-> PyNone]

\* "Add standard attributes" without the removal of the natives not asked for
KeepAskedAndFetched(entry, attrs) ==
    LET std == {a \in Range(attrs) : a \in DOMAIN MAP_STANDARD_ATTR_TO_IP21}
    IN  [a \in DOMAIN entry \cup std |->
            IF a \in std THEN entry[MAP_STANDARD_ATTR_TO_IP21[a]] ELSE entry[a]]

\* "Add standard attributes" and "Remove non-asked native attributes"
KeepAsked(entry, attrs) ==
    LET asked == Range(attrs)
        std == {a \in asked : a \in DOMAIN MAP_STANDARD_ATTR_TO_IP21}
        added == [a \in DOMAIN entry \cup std |->
                    IF a \in std THEN entry[MAP_STANDARD_ATTR_TO_IP21[a]] ELSE entry[a]]
    IN  [a \in {k \in DOMAIN added : k \in asked \/ k = "HasChildren"} |-> added[a]]

\* the lookup result[tag][MAP_STANDARD_ATTR_TO_IP21[a]] finds its key
AskedPresent(entry, attrs) ==
    \A a \in Range(attrs) :
        a \in DOMAIN MAP_STANDARD_ATTR_TO_IP21 => MAP_STANDARD_ATTR_TO_IP21[a] \in DOMAIN entry

\* the standard attributes added only where the native column was returned
AddStandardWherePresent(entry) ==
    [a \in DOMAIN entry \cup {x \in DOMAIN MAP_STANDARD_ATTR_TO_IP21 :
                                MAP_STANDARD_ATTR_TO_IP21[x] \in DOMAIN entry} |->
        IF a \in DOMAIN MAP_STANDARD_ATTR_TO_IP21
        THEN entry[MAP_STANDARD_ATTR_TO_IP21[a]]
        ELSE entry[a]]

\* "Return native and standard attributes"
AddStandard(entry) ==
    [a \in DOMAIN entry \cup DOMAIN MAP_STANDARD_ATTR_TO_IP21 |->
        IF a \in DOMAIN MAP_STANDARD_ATTR_TO_IP21
        THEN IF MAP_STANDARD_ATTR_TO_IP21[a] \in DOMAIN entry
             THEN entry[MAP_STANDARD_ATTR_TO_IP21[a]]
             ELSE PyNone
        ELSE entry[a]]

\* "sql server" in self._conn_string.lower()
Lower(c) ==
    CASE c = "S" -> "s" [] c = "Q" -> "q" [] c = "L" -> "l" [] c = "E" -> "e"
      [] c = "R" -> "r" [] c = "V" -> "v" [] OTHER -> c

SqlServerMarker == <<"s", "q", "l", " ", "s", "e", "r", "v", "e", "r">>

\* "sql server" in self._conn_string, the case of the letters kept
sql_server_mode_case_sensitive(cs) ==
    \E i \in 1..(Len(cs) - Len(SqlServerMarker) + 1) :
        \A k \in 1..Len(SqlServerMarker) : cs[i + k - 1] = SqlServerMarker[k]

sql_server_mode(cs) ==
    \E i \in 1..(Len(cs) - Len(SqlServerMarker) + 1) :
        \A k \in 1..Len(SqlServerMarker) : Lower(cs[i + k - 1]) = SqlServerMarker[k]

\* list_tags: the projection of the query
ListSelect(include_attributes) ==
    IF include_attributes.kind = "list" /\ Len(include_attributes.val) > 0
    THEN LET native == standard_to_native_attr_list(include_attributes.val)
         IN  IF "NAME" \notin Range(native) THEN Append(native, "NAME") ELSE native
    ELSE IF include_attributes.kind = "bool" /\ include_attributes.flag
    THEN <<"*">>
    ELSE <<"NAME">>

\* the loop with a group whose query fails skipped, the others still returned
RECURSIVE ListTagsLoopSkipFailed(_, _, _, _, _, _, _, _, _)
ListTagsLoopSkipFailed(tables, scan, cs, gm, i, select, max_results, acc, lg) ==
    IF i > Len(gm) THEN Returned(acc, lg)
    ELSE LET grp == gm[i].grp
             q == [table |-> grp, select |-> select, like |-> LikePatterns(gm[i].tags),
                   time_col |-> "IP_TREND_TIME", ge |-> PyNone, le |-> PyNone,
                   order |-> TRUE, distinct |-> sql_server_mode(cs), top |-> 0]
             r == ExecuteSelect(tables, scan, q)
             lg2 == lg \o <<Event("cursor", grp), Event("execute", grp)>>
             rows == IF max_results > 0 THEN FirstN(r.rows, max_results) ELSE r.rows
         IN  IF r.err # ""
             THEN ListTagsLoopSkipFailed(tables, scan, cs, gm, i + 1, select, max_results,
                                         acc, lg2)
             ELSE ListTagsLoopSkipFailed(tables, scan, cs, gm, i + 1, select, max_results,
                               Update(acc, RowsToDict(r.columns, rows,
                                                      grp \o <<GROUP_TAG_DELIMITER>>)),
                               Append(lg2, Event("fetch", grp)))

\* list_tags: the loop over the groups; acc is the result so far
RECURSIVE ListTagsLoop(_, _, _, _, _, _, _, _, _)
ListTagsLoop(tables, scan, cs, gm, i, select, max_results, acc, lg) ==
    IF i > Len(gm) THEN Returned(acc, lg)
    ELSE LET grp == gm[i].grp
             q == [table |-> grp, select |-> select, like |-> LikePatterns(gm[i].tags),
                   time_col |-> "IP_TREND_TIME", ge |-> PyNone, le |-> PyNone,
                   order |-> TRUE, distinct |-> sql_server_mode(cs), top |-> 0]
             r == ExecuteSelect(tables, scan, q)
             lg2 == lg \o <<Event("cursor", grp), Event("execute", grp)>>
             rows == IF max_results > 0 THEN FirstN(r.rows, max_results) ELSE r.rows
         IN  IF r.err # "" THEN Raised(r.err, lg2)
             ELSE ListTagsLoop(tables, scan, cs, gm, i + 1, select, max_results,
                               Update(acc, RowsToDict(r.columns, rows,
                                                      grp \o <<GROUP_TAG_DELIMITER>>)),
                               Append(lg2, Event("fetch", grp)))

list_tags_body(tables, scan, cs, dg, filter, include_attributes, max_results) ==
    LET attr_list_provided ==
            include_attributes.kind = "list" /\ Len(include_attributes.val) > 0
        all_columns == include_attributes.kind = "bool" /\ include_attributes.flag
        filters == filter.val
        groups_map == tag_list_to_group_map(dg, filters)
        got == ListTagsLoop(tables, scan, cs, groups_map, 1,
                            ListSelect(include_attributes), max_results, EmptyDict, <<>>)
    IN  IF got.outcome # "ok" THEN got
        ELSE IF attr_list_provided
        THEN IF \E t \in DOMAIN got.result : ~AskedPresent(got.result[t], include_attributes.val)
             THEN Raised("KeyError", got.log)
             ELSE Returned([t \in DOMAIN got.result |->
                                KeepAsked(got.result[t], include_attributes.val)], got.log)
        ELSE IF all_columns
        THEN Returned([t \in DOMAIN got.result |-> AddStandard(got.result[t])], got.log)
        ELSE got

\* list_tags without @active_connection: with no connection the body runs until
\* self._conn.autocommit = False fails on None
list_tags_undecorated(c, tables, scan, cs, dg, filter, include_attributes, max_results) ==
    IF connected(c)
    THEN list_tags_body(tables, scan, cs, dg, filter, include_attributes, max_results)
    ELSE IF tag_list_to_group_map(dg, filter.val) = <<>>
    THEN Returned(EmptyDict, <<>>)
    ELSE Raised("AttributeError", <<>>)

list_tags(c, tables, scan, cs, dg, filter, include_attributes, max_results) ==
    active_connection(c,
        list_tags_body(tables, scan, cs, dg, filter, include_attributes, max_results))

\* read_tag_attributes: the projection of the query
AttrSelect(attributes) ==
    IF attributes.kind = "list" /\ Len(attributes.val) > 0
    THEN LET native == standard_to_native_attr_list(attributes.val)
         IN  IF "NAME" \notin Range(attributes.val) THEN Append(native, "NAME") ELSE native
    ELSE <<"*">>

\* read_tag_attributes: the loop over the groups
RECURSIVE ReadAttrLoop(_, _, _, _, _, _, _)
ReadAttrLoop(tables, scan, gm, i, attributes, acc, lg) ==
    IF i > Len(gm) THEN Returned(acc, lg)
    ELSE LET grp == gm[i].grp
             attr_list_provided == attributes.kind = "list" /\ Len(attributes.val) > 0
             q == [table |-> grp, select |-> AttrSelect(attributes),
                   like |-> LikePatterns(gm[i].tags),
                   time_col |-> "IP_TREND_TIME", ge |-> PyNone, le |-> PyNone,
                   order |-> TRUE, distinct |-> FALSE, top |-> 0]
             r == ExecuteSelect(tables, scan, q)
             lg2 == lg \o <<Event("cursor", grp), Event("execute", grp)>>
             grp_result == RowsToDict(r.columns, r.rows, <<>>)
         IN  IF r.err # "" THEN Raised(r.err, lg2)
             ELSE IF attr_list_provided
                     /\ \E t \in DOMAIN grp_result : ~AskedPresent(grp_result[t], attributes.val)
             THEN Raised("KeyError", Append(lg2, Event("fetch", grp)))
             ELSE ReadAttrLoop(tables, scan, gm, i + 1, attributes,
                    Update(acc,
                           [t \in DOMAIN grp_result |->
                               IF attr_list_provided
                               THEN KeepAsked(grp_result[t], attributes.val)
                               ELSE AddStandard(grp_result[t])]),
                    Append(lg2, Event("fetch", grp)))

read_tag_attributes(c, tables, scan, dg, tags, attributes) ==
    active_connection(c,
        ReadAttrLoop(tables, scan, tag_list_to_group_map(dg, tags), 1, attributes,
                     EmptyDict, <<>>))

\* read_tag_values and write_tag_values: raise RuntimeError("unsupported")
read_tag_values(c) == active_connection(c, Raised("RuntimeError", <<>>))
write_tag_values(c) == active_connection(c, Raised("RuntimeError", <<>>))

ConnectionInfo == <<"O", "D", "B", "C">>

connection_info(c) == active_connection(c, Returned(ConnectionInfo, <<>>))

----------------------------------------------------------------------------
(* read_tag_values_period.  A DataFrame is [index, columns, cells]: the    *)
(* index and column labels in order, and the cell of every pair.           *)

MAP_TIME_FREQUENCY_TO_IP21 == [f \in {<<"r", "a", "w", " ", "d", "a", "t", "a">>} |-> PyNone]

\* time_frequency.lower() for the frequencies the model uses (all lower case)
FreqOf(time_frequency) ==
    IF time_frequency # PyNone /\ time_frequency \in DOMAIN MAP_TIME_FREQUENCY_TO_IP21
    THEN MAP_TIME_FREQUENCY_TO_IP21[time_frequency]
    ELSE time_frequency

\* tag.split(delimiter)[1] if delimiter in tag else tag
ShortName(tag) ==
    IF Contains(tag, GROUP_TAG_DELIMITER)
    THEN SplitAll(tag, GROUP_TAG_DELIMITER)[2]
    ELSE tag

\* a set of strings as the sorted sequence of its members
RECURSIVE SortNames(_)
SortNames(S) ==
    IF S = {} THEN <<>>
    ELSE LET m == CHOOSE x \in S : \A y \in S : y = x \/ StrLess(x, y)
         IN  <<m>> \o SortNames(S \ {m})

RECURSIVE SortTimes(_)
SortTimes(S) ==
    IF S = {} THEN <<>>
    ELSE LET m == CHOOSE x \in S : \A y \in S : TimeOf(x) <= TimeOf(y)
         IN  <<m>> \o SortTimes(S \ {m})

\* df.pivot(index="Timestamp", columns="Name", values="Value") raises on a repeated pair
PivotFails(data) ==
    \E i, j \in 1..Len(data) :
        /\ i < j
        /\ data[i]["NAME"] = data[j]["NAME"]
        /\ data[i]["IP_TREND_TIME"] = data[j]["IP_TREND_TIME"]

Pivot(data) ==
    LET names == {data[i]["NAME"] : i \in 1..Len(data)}
        times == {data[i]["IP_TREND_TIME"] : i \in 1..Len(data)}
    IN  [index |-> SortTimes(times),
         columns |-> SortNames(names),
         cells |-> [p \in times \X names |->
                      IF \E i \in 1..Len(data) :
                            data[i]["IP_TREND_TIME"] = p[1] /\ data[i]["NAME"] = p[2]
                      THEN data[CHOOSE i \in 1..Len(data) :
                            data[i]["IP_TREND_TIME"] = p[1] /\ data[i]["NAME"] = p[2]]["IP_TREND_VALUE"]
                      ELSE PyNone]]

\* for tag in tags: df[short_name] = df.get(short_name, None)
RECURSIVE AddRequested(_, _)
AddRequested(df, tags) ==
    IF tags = <<>> THEN df
    ELSE LET short_name == ShortName(Head(tags))
         IN  IF short_name \in Range(df.columns)
             THEN AddRequested(df, Tail(tags))
             ELSE AddRequested(
                    [index |-> df.index,
                     columns |-> Append(df.columns, short_name),
                     cells |-> [p \in Range(df.index) \X {short_name} |-> PyNone] @@ df.cells],
                    Tail(tags))

\* the recorded-values branch: the loop over the groups; acc is data
RECURSIVE PeriodLoop(_, _, _, _, _, _, _, _, _, _, _)
PeriodLoop(tables, scan, cs, gm, i, first_timestamp, last_timestamp, max_results, progress_callback, acc, lg) ==
    IF i > Len(gm) THEN Returned(acc, lg)
    ELSE LET grp == gm[i].grp
             top == max_results > 0 /\ sql_server_mode(cs)
             max_rows == max_results > 0 /\ ~sql_server_mode(cs)
             q == [table |-> grp, select |-> <<"NAME", "IP_TREND_TIME", "IP_TREND_VALUE">>,
                   like |-> LikePatterns(gm[i].tags),
                   time_col |-> "IP_TREND_TIME", ge |-> first_timestamp, le |-> last_timestamp,
                   order |-> FALSE, distinct |-> FALSE,
                   top |-> IF top \/ max_rows THEN max_results ELSE 0]
             r == ExecuteSelect(tables, scan, q)
             lg2 == lg \o (IF progress_callback THEN <<Event("callback", grp)>> ELSE <<>>)
                       \o <<LimitedEvent("execute", grp,
                               IF top THEN "TOP" ELSE IF max_rows THEN "SET MAX_ROWS" ELSE "none")>>
             lg3 == lg2 \o (IF max_rows THEN <<Event("nextset", grp)>> ELSE <<>>)
                        \o <<Event("fetch", grp)>>
         IN  IF r.err # "" THEN Raised(r.err, lg2)
             ELSE PeriodLoop(tables, scan, cs, gm, i + 1, first_timestamp, last_timestamp,
                             max_results, progress_callback, acc \o r.rows, lg3)

\* the interpolated-values branch (freq is set): one query on HISTORY
HistoryRead(tables, scan, cs, tags, first_timestamp, last_timestamp, max_results, lg) ==
    IF tags = <<>> \/ \E i \in 1..Len(tags) : Contains(tags[i], GROUP_TAG_DELIMITER)
    THEN Raised("TypeError", lg)
    ELSE LET max_rows == max_results > 0 /\ ~sql_server_mode(cs)
             q == [table |-> <<"HISTORY">>, select |-> <<"NAME", "TS", "VALUE">>,
                   like |-> LikePatterns(tags),
                   time_col |-> "TS", ge |-> first_timestamp, le |-> last_timestamp,
                   order |-> FALSE, distinct |-> FALSE,
                   top |-> IF max_rows THEN max_results ELSE 0]
             r == ExecuteSelect(tables, scan, q)
             lg2 == Append(lg, LimitedEvent("execute", <<"HISTORY">>,
                                  IF max_rows THEN "SET MAX_ROWS" ELSE "none"))
             lg3 == lg2 \o (IF max_rows THEN <<Event("nextset", <<"HISTORY">>)>> ELSE <<>>)
                        \o <<Event("fetch", <<"HISTORY">>)>>
         IN  IF r.err # "" THEN Raised(r.err, lg2)
             ELSE IF \E k \in 1..Len(r.columns) : r.columns[k] \notin DOMAIN MAP_IP21ATTRIBUTE_2_STANDARD
             THEN Raised("KeyError", lg3)
             ELSE Returned(r.rows, lg3)

read_tag_values_period_body(tables, scan, cs, dg, tags, first_timestamp, last_timestamp, time_frequency, max_results, result_format, progress_callback) ==
    IF result_format # "dataframe" THEN Raised("AssertionError", <<>>)
    ELSE LET freq == FreqOf(time_frequency)
             lg == <<Event("cursor", <<>>)>>
             got == IF freq # PyNone /\ freq # <<>>
                    THEN HistoryRead(tables, scan, cs, tags, first_timestamp, last_timestamp,
                                     max_results, lg)
                    ELSE PeriodLoop(tables, scan, cs, tag_list_to_group_map(dg, tags), 1,
                                    first_timestamp, last_timestamp, max_results,
                                    progress_callback, <<>>, lg)
         IN  IF got.outcome # "ok" THEN got
             \* curs.description is None when nothing was executed
             ELSE IF ~\E k \in 1..Len(got.log) : got.log[k].ev = "execute"
             THEN Raised("TypeError", got.log)
             ELSE IF PivotFails(got.result) THEN Raised("ValueError", got.log)
             ELSE Returned(AddRequested(Pivot(got.result), tags), got.log)

read_tag_values_period(c, tables, scan, cs, dg, tags, first_timestamp, last_timestamp, time_frequency, max_results, result_format, progress_callback) ==
    active_connection(c,
        read_tag_values_period_body(tables, scan, cs, dg, tags, first_timestamp,
                                    last_timestamp, time_frequency, max_results,
                                    result_format, progress_callback))

----------------------------------------------------------------------------
(* Backends, after the demo tables of tests/conftest.py: two groups of one *)
(* schema, several rows per tag, one tag name present in both groups, and  *)
(* one tag name that is a prefix of another.                               *)

TableColumns ==
    <<"NAME", "IP_DESCRIPTION", "IP_TAG_TYPE", "IP_ENG_UNITS", "IP_#_OF_TREND_VALUES",
      "IP_TREND_TIME", "IP_TREND_VALUE">>

TagRow(name, desc, units, time, value) ==
    [c \in Range(TableColumns) |->
        CASE c = "NAME" -> name
          [] c = "IP_DESCRIPTION" -> desc
          [] c = "IP_ENG_UNITS" -> units
          [] c = "IP_TREND_TIME" -> time
          [] c = "IP_TREND_VALUE" -> value
          [] OTHER -> PyNone]

GroupG == <<"g">>
GroupH == <<"h">>

DemoTables ==
    (GroupG :> [columns |-> TableColumns,
                rows |-> << TagRow(<<"a">>, <<"F", "C">>, <<>>, <<"1">>, <<"5">>),
                            TagRow(<<"a">>, <<"F", "C">>, <<>>, <<"2">>, <<"6">>),
                            TagRow(<<"a", "b">>, <<"T", "C">>, <<"D">>, <<"1">>, <<"7">>) >>])
    @@
    (GroupH :> [columns |-> TableColumns,
                rows |-> << TagRow(<<"a">>, <<"V">>, <<>>, <<"1">>, <<"8">>),
                            TagRow(<<"b">>, <<"V">>, <<>>, <<"2">>, <<"9">>) >>])

SparseTables ==
    (GroupG :> [columns |-> TableColumns,
                rows |-> << TagRow(<<"b">>, <<"T", "C">>, <<"D">>, <<"2">>, <<"7">>) >>])
    @@
    (GroupH :> [columns |-> TableColumns, rows |-> <<>>])

Backends == {DemoTables, SparseTables}

\* default_group=...: absent, a group of the backend, or the form's default ""
DefaultGroups == {PyNone, GroupG, <<>>}

\* connection strings: one names a SQL Server driver, one the historian's
ConnStrings ==
    { <<"S", "Q", "L", " ", "S", "e", "r", "v", "e", "r">>,
      <<"A", "s", "p", "e", "n">> }

----------------------------------------------------------------------------
(* The calls.  An action is one whole call on the connector.               *)

NoCall == [call |-> "none"]

Finish(name, a, r) ==
    /\ op' = name
    /\ args' = a
    /\ outcome' = r.outcome
    /\ result' = r.result
    /\ log' = r.log
    /\ UNCHANGED <<conn, default_group, conn_string, db, last_change>>

\* connect: pyodbc.connect returns a connection or raises
connect ==
    \/ /\ conn' = Handle
       /\ outcome' = "ok"
       /\ last_change' = "connect"
       /\ op' = "connect"
       /\ result' = PyNone
       /\ log' = <<>>
       /\ UNCHANGED <<default_group, conn_string, db, args>>
    \/ /\ outcome' = "pyodbc.Error"
       /\ op' = "connect"
       /\ result' = PyNone
       /\ log' = <<>>
       /\ UNCHANGED <<conn, last_change, default_group, conn_string, db, args>>

\* disconnect that closes the connection and keeps the reference
disconnect_keeps_conn ==
    LET r == active_connection(conn, Returned(PyNone, <<>>))
    IN  /\ op' = "disconnect"
        /\ outcome' = r.outcome
        /\ result' = PyNone
        /\ log' = <<>>
        /\ last_change' = IF r.outcome = "ok" THEN "disconnect" ELSE last_change
        /\ UNCHANGED <<conn, default_group, conn_string, db, args>>

\* disconnect: self._conn.close(); self._conn = None
disconnect ==
    LET r == active_connection(conn, Returned(PyNone, <<>>))
    IN  /\ op' = "disconnect"
        /\ outcome' = r.outcome
        /\ result' = PyNone
        /\ log' = <<>>
        /\ conn' = IF r.outcome = "ok" THEN PyNone ELSE conn
        /\ last_change' = IF r.outcome = "ok" THEN "disconnect" ELSE last_change
        /\ UNCHANGED <<default_group, conn_string, db, args>>

ConnectionInfoCall ==
    Finish("connection_info", [call |-> "connection_info"], connection_info(conn))

ReadTagValues ==
    Finish("read_tag_values", [call |-> "read_tag_values"], read_tag_values(conn))

WriteTagValues ==
    Finish("write_tag_values", [call |-> "write_tag_values"], write_tag_values(conn))

\* the backend reads a table in either order
Scans == {"fwd", "rev"}

ListTags(a) ==
    \E scan \in Scans :
        Finish("list_tags", a,
               list_tags(conn, db, scan, conn_string, default_group,
                         a.filter, a.include_attributes, a.max_results))

ReadTagAttributes(a) ==
    \E scan \in Scans :
        Finish("read_tag_attributes", a,
               read_tag_attributes(conn, db, scan, default_group, a.tags, a.attributes))

ReadTagValuesPeriod(a) ==
    \E scan \in Scans :
        Finish("read_tag_values_period", a,
               read_tag_values_period(conn, db, scan, conn_string, default_group, a.tags,
                                      a.first_timestamp, a.last_timestamp, a.time_frequency,
                                      a.max_results, a.result_format, a.progress_callback))

\* _tag_list_to_group_map called on its own; it never raises
Resolve(a) ==
    Finish("_tag_list_to_group_map", a,
           Returned(tag_list_to_group_map(default_group, a.tags), <<>>))

----------------------------------------------------------------------------
(* Inputs *)

MaxTags == 2        \* tags (filters) per call
MaxTagLen == 3      \* characters per tag, where every string is tried
MaxAttrs == 2       \* attributes per call
MaxResults == 2     \* the largest max_results tried

SeqsUpTo(S, n) == UNION {[1..k -> S] : k \in 0..n}

\* every string of up to MaxTagLen characters
TagChars == {"a", "g", "*", ":"}
TagStrings == SeqsUpTo(TagChars, MaxTagLen)

\* tags and filters of the calls that query: the empty filter, a name that is
\* another name's prefix, wildcards, an explicit group, a second delimiter,
\* a wildcard in the group
Patterns ==
    { <<>>, <<"a">>, <<"*", "b">>, <<"a", "_">>,
      <<"g", ":", "a">>, <<"h", ":", "*">>,
      <<"g", ":", "a", ":", "b">>, <<"g", "*", ":", "a">> }

TagLists == SeqsUpTo(Patterns, MaxTags)
FewTagLists == { <<<<"a">>>>, <<<<"g", ":", "a">>, <<"h", ":", "*">>>> }

\* an argument that may be a str, a bool, None or a list: its type, and its value
\* (a str as the one-element list [filter] the code makes of it)
StrArg(v) == [kind |-> "str", flag |-> FALSE, val |-> <<v>>]
ListArg(v) == [kind |-> "list", flag |-> FALSE, val |-> v]
BoolArg(v) == [kind |-> "bool", flag |-> v, val |-> <<>>]
NoneArg == [kind |-> "none", flag |-> FALSE, val |-> <<>>]

Filters == {StrArg(p) : p \in Patterns} \cup {ListArg(l) : l \in TagLists}
FewFilters == {StrArg(<<>>)} \cup {ListArg(l) : l \in FewTagLists}

AttrNames == {"Name", "NAME", "Description", "IP_DESCRIPTION", "Path"}
AttrLists == SeqsUpTo(AttrNames, MaxAttrs)

Times == {<<"1">>, <<"2">>}
Frequencies == {PyNone, <<"r", "a", "w", " ", "d", "a", "t", "a">>, <<"h">>}

ListTagsArgs(f, ia, m) ==
    [call |-> "list_tags", filter |-> f, include_attributes |-> ia, max_results |-> m]

ListInputs ==
    {ListTagsArgs(f, BoolArg(b), m) : f \in Filters, b \in BOOLEAN, m \in (-1)..MaxResults}
    \cup {ListTagsArgs(f, ListArg(l), m) : f \in FewFilters, l \in AttrLists, m \in {0, MaxResults}}

ReadTagAttributesArgs(t, at) ==
    [call |-> "read_tag_attributes", tags |-> t, attributes |-> at]

AttrInputs ==
    {ReadTagAttributesArgs(t, at) : t \in TagLists, at \in {NoneArg, ListArg(<<"Description">>)}}
    \cup {ReadTagAttributesArgs(t, ListArg(l)) : t \in FewTagLists, l \in AttrLists}

PeriodArgs(t, f, l, tf, m, rf, cb) ==
    [call |-> "read_tag_values_period", tags |-> t, first_timestamp |-> f,
     last_timestamp |-> l, time_frequency |-> tf, max_results |-> m,
     result_format |-> rf, progress_callback |-> cb]

PeriodInputs ==
    {PeriodArgs(t, PyNone, PyNone, PyNone, m, "dataframe", cb) :
        t \in TagLists, m \in 0..MaxResults, cb \in BOOLEAN}
    \cup {PeriodArgs(t, f, l, tf, m, rf, FALSE) :
            t \in FewTagLists, f \in Times \cup {PyNone}, l \in Times \cup {PyNone},
            tf \in Frequencies, m \in {0, 1}, rf \in {"dataframe", "series"}}
    \cup {PeriodArgs(t, PyNone, PyNone, tf, m, "dataframe", TRUE) :
            t \in FewTagLists, tf \in Frequencies, m \in {-1, 1}}

ResolveInputs ==
    {[call |-> "_tag_list_to_group_map", tags |-> t] : t \in SeqsUpTo(TagStrings, MaxTags)}

\* the calls of the life-cycle specification
SmallListInputs ==
    {ListTagsArgs(f, ia, 0) : f \in FewFilters, ia \in {BoolArg(FALSE), ListArg(<<"Description">>)}}
SmallAttrInputs == {ReadTagAttributesArgs(t, NoneArg) : t \in FewTagLists}
SmallPeriodInputs ==
    {PeriodArgs(t, PyNone, PyNone, PyNone, 0, "dataframe", TRUE) : t \in FewTagLists}

----------------------------------------------------------------------------
(* Specifications *)

\* __init__: self._conn = None, and the configuration given
Constructed ==
    /\ conn = PyNone
    /\ default_group \in DefaultGroups
    /\ conn_string \in ConnStrings
    /\ db \in Backends
    /\ op = "none"
    /\ outcome = "ok"
    /\ result = PyNone
    /\ log = <<>>
    /\ last_change = "none"

\* The life cycle: any sequence of calls.
Init == Constructed /\ args = NoCall

Next ==
    \/ connect
    \/ disconnect
    \/ ConnectionInfoCall
    \/ ReadTagValues
    \/ WriteTagValues
    \/ \E a \in SmallListInputs : ListTags(a)
    \/ \E a \in SmallAttrInputs : ReadTagAttributes(a)
    \/ \E a \in SmallPeriodInputs : ReadTagValuesPeriod(a)

Spec == Init /\ [][Next]_vars

\* The resolver alone: the tags are drawn, _tag_list_to_group_map is applied.
InitResolve ==
    /\ Constructed
    /\ conn_string = <<"A", "s", "p", "e", "n">>
    /\ db = DemoTables
    /\ args \in ResolveInputs

NextResolve == op = "none" /\ Resolve(args)

SpecResolve == InitResolve /\ [][NextResolve]_vars

\* One listing call: the arguments are drawn, the connector connects, the call is made.
InitList == Constructed /\ args \in ListInputs \cup AttrInputs

NextList ==
    \/ op = "none" /\ connect
    \/ op = "connect" /\ args.call = "list_tags" /\ ListTags(args)
    \/ op = "connect" /\ args.call = "read_tag_attributes" /\ ReadTagAttributes(args)

SpecList == InitList /\ [][NextList]_vars

\* One period read.
InitPeriod == Constructed /\ args \in PeriodInputs

NextPeriod ==
    \/ op = "none" /\ connect
    \/ op = "connect" /\ ReadTagValuesPeriod(args)

SpecPeriod == InitPeriod /\ [][NextPeriod]_vars

\* One call of any of the three operations that query the groups.
InitCalls == Constructed /\ args \in ListInputs \cup AttrInputs \cup PeriodInputs

NextCalls ==
    \/ op = "none" /\ connect
    \/ op = "connect" /\ args.call = "list_tags" /\ ListTags(args)
    \/ op = "connect" /\ args.call = "read_tag_attributes" /\ ReadTagAttributes(args)
    \/ op = "connect" /\ args.call = "read_tag_values_period" /\ ReadTagValuesPeriod(args)

SpecCalls == InitCalls /\ [][NextCalls]_vars

----------------------------------------------------------------------------
(* The claims *)

DataOps ==
    {"list_tags", "read_tag_attributes", "read_tag_values_period", "read_tag_values",
     "write_tag_values", "connection_info"}

\* C1: a data operation (list_tags, read_tag_attributes, read_tag_values_period,
\* read_tag_values, write_tag_values, connection_info) called while the connector
\* is Disconnected raises the precondition error, opens no cursor and executes no
\* query, and leaves the connector Disconnected.
C1_DisconnectedCallFailsFast ==
    [][(~connected(conn) /\ op' \in DataOps)
        => (outcome' = "PreconditionError" /\ log' = <<>> /\ ~connected(conn'))]_vars

\* a data operation refused after a disconnect
C1_Witness ==
    /\ op \in DataOps
    /\ outcome = "PreconditionError"
    /\ last_change = "disconnect"
    /\ ~connected(conn)

\* C2: the connector is Disconnected when constructed, and connected is True
\* exactly when the last call that changed the state was a successful connect:
\* disconnect makes it Disconnected again, and no other call, failed or not,
\* changes the state.
C2_TwoStates ==
    /\ conn \in {PyNone, Handle}
    /\ connected(conn) <=> last_change = "connect"
    /\ op = "none" => ~connected(conn)

\* a failed data operation after a reconnect leaves the connector Connected
C2_Witness ==
    /\ op = "read_tag_values"
    /\ outcome = "RuntimeError"
    /\ connected(conn)
    /\ last_change = "connect"

\* the parts of a tag 'group:name' as the specification reads it: the group
\* is what precedes the first delimiter, the tag portion what follows it
GroupPart(t) == Split1(t, GROUP_TAG_DELIMITER)[1]
TagPart(t) == Split1(t, GROUP_TAG_DELIMITER)[2]

\* the tag portion in the backend's notation: every '*' written '%'
Wildcarded(s) == [i \in 1..Len(s) |-> IF s[i] = "*" THEN "%" ELSE s[i]]

ResolvedOne ==
    /\ op = "_tag_list_to_group_map"
    /\ Len(args.tags) = 1

\* C3: for a tag s that contains the delimiter ':' (once or more),
\* _tag_list_to_group_map([s]) is a map with exactly one group key, the key is
\* the substring of s before the first delimiter, and the one pattern under it
\* is the rest of s after that delimiter (its wildcards in the backend's
\* notation, as C5 has it).
C3_GroupKeyIsPrefix ==
    (ResolvedOne /\ Contains(args.tags[1], GROUP_TAG_DELIMITER))
        => /\ outcome = "ok"
           /\ Len(result) = 1
           /\ result[1].grp = GroupPart(args.tags[1])
           /\ result[1].tags = <<Wildcarded(TagPart(args.tags[1]))>>

\* C4: for a tag s without the delimiter, _tag_list_to_group_map([s]) is {g: [s]}
\* when the connector has a default group g, and raises AddressError, issuing no
\* query, when it has none.
C4_DefaultGroupOrAddressError ==
    (ResolvedOne /\ ~Contains(args.tags[1], GROUP_TAG_DELIMITER))
        => IF default_group # PyNone
           THEN /\ outcome = "ok"
                /\ result = <<[grp |-> default_group, tags |-> <<Wildcarded(args.tags[1])>>]>>
           ELSE /\ outcome = "AddressError"
                /\ result = PyNone
                /\ log = <<>>

\* C5: every '*' of the tag portion of an input is '%' in the pattern placed in
\* the group map, and the group portion is never rewritten: the pattern of an
\* input 'grp:name' is filed under the key grp, character for character, also
\* when grp contains '*'.
C5_GroupNeverRewritten ==
    op = "_tag_list_to_group_map"
        => /\ outcome = "ok"
           /\ \A k \in 1..Len(result) : \A j \in 1..Len(result[k].tags) :
                    ~Contains(result[k].tags[j], "*")
           /\ \A i \in 1..Len(args.tags) :
                Contains(args.tags[i], GROUP_TAG_DELIMITER)
                    => \E k \in 1..Len(result) :
                          /\ result[k].grp = GroupPart(args.tags[i])
                          /\ \E j \in 1..Len(result[k].tags) :
                                result[k].tags[j] = Wildcarded(TagPart(args.tags[i]))

\* a requested tag with its group prefix stripped
StrippedName(t) == IF Contains(t, GROUP_TAG_DELIMITER) THEN TagPart(t) ELSE t

\* C6: the table a successful read_tag_values_period(T) returns has as its
\* columns exactly the short names of T (each tag with its group prefix
\* stripped): every requested tag is a column, and no other column exists, also
\* when a requested name is a prefix of or a pattern for stored names, or holds
\* a second ':'.
C6_ColumnsAreRequestedNames ==
    (op = "read_tag_values_period" /\ outcome = "ok")
        => Range(result.columns) = {StrippedName(t) : t \in Range(args.tags)}

\* the tags the call names: the filter of list_tags, the tags of read_tag_attributes
CalledTags == IF op = "list_tags" THEN args.filter.val ELSE args.tags

Listing ==
    /\ op \in {"list_tags", "read_tag_attributes"}
    /\ outcome = "ok"

StoredNames(g) == {db[g].rows[i]["NAME"] : i \in 1..Len(db[g].rows)}
StoredRows(g) == Range(db[g].rows)

\* the group map of the call: group -> patterns, '*' already written '%'
CalledMap == tag_list_to_group_map(default_group, CalledTags)

\* the names of group g that the call's query of g selects
Selected(g) ==
    {n \in StoredNames(g) :
        \E j \in 1..Len(TagsOf(CalledMap, g)) : Like(n, TagsOf(CalledMap, g)[j] \o <<"%">>)}

Qualified(g, n) == g \o <<GROUP_TAG_DELIMITER>> \o n

\* C7: the mapping list_tags and read_tag_attributes return is the union of the
\* groups' results keyed by 'group:name': a name that two queried groups both
\* hold gives two entries, one per group, and neither replaces the other.
C7_NoCollisionAcrossGroups ==
    (Listing /\ (op = "list_tags" => args.max_results <= 0))
        => \A g1, g2 \in Groups(CalledMap) :
              g1 # g2 =>
                 \A n \in Selected(g1) \cap Selected(g2) :
                    /\ Qualified(g1, n) \in DOMAIN result
                    /\ Qualified(g2, n) \in DOMAIN result

\* name matches pattern, '*' standing for any substring
RECURSIVE Glob(_, _)
Glob(n, p) ==
    IF p = <<>> THEN n = <<>>
    ELSE IF Head(p) = "*" THEN Glob(n, Tail(p)) \/ (n # <<>> /\ Glob(Tail(n), p))
    ELSE n # <<>> /\ Head(p) = Head(n) /\ Glob(Tail(n), Tail(p))

\* the patterns the call names for group g
RequestedFor(g) ==
    {TagPart(FqnTag(default_group, CalledTags[i])) : i \in
        {k \in 1..Len(CalledTags) : GroupPart(FqnTag(default_group, CalledTags[k])) = g}}

UnlimitedList ==
    /\ op = "list_tags"
    /\ outcome = "ok"
    /\ args.max_results <= 0

\* C8 as stated: with max_results <= 0, list_tags returns a stored tag
\* (group, name) if and only if name matches one of the patterns requested for
\* the group; and an empty filter returns every tag of the default group.
C8_ReturnedIffMatches ==
    UnlimitedList
        => /\ \A g \in DOMAIN db : \A n \in StoredNames(g) :
                 Qualified(g, n) \in DOMAIN result
                    <=> \E p \in RequestedFor(g) : Glob(n, p)
           /\ (args.filter = StrArg(<<>>) /\ default_group \in DOMAIN db)
                 => \A n \in StoredNames(default_group) :
                       Qualified(default_group, n) \in DOMAIN result

\* C8 amended: with max_results <= 0, list_tags returns a stored tag
\* (group, name) if and only if one of the patterns resolved for the group
\* matches a prefix of name under LIKE ('*', written '%', any substring; '_'
\* any one character), and nothing else; so an empty filter returns every tag
\* of the default group.
C8_ReturnedIffPrefixMatches ==
    UnlimitedList
        => /\ DOMAIN result =
                 UNION {{Qualified(g, n) : n \in Selected(g)} : g \in Groups(CalledMap)}
           /\ (args.filter = StrArg(<<>>) /\ default_group \in DOMAIN db)
                 => \A n \in StoredNames(default_group) :
                       Qualified(default_group, n) \in DOMAIN result

\* the name 'ab' returned for the filter 'a', of which it is not a match but an
\* extension
C8_Witness ==
    /\ UnlimitedList
    /\ args.filter = StrArg(<<"a">>)
    /\ Qualified(GroupG, <<"a", "b">>) \in DOMAIN result

\* the native column an asked attribute is read from
NativeOf(a) ==
    IF a \in DOMAIN MAP_STANDARD_ATTR_TO_IP21 THEN MAP_STANDARD_ATTR_TO_IP21[a] ELSE a

\* the attribute list of the call, when one is given and is not empty
AskedAttrs ==
    IF op = "list_tags"
    THEN IF args.include_attributes.kind = "list" THEN args.include_attributes.val ELSE <<>>
    ELSE IF args.attributes.kind = "list" THEN args.attributes.val ELSE <<>>

\* the stored rows an entry under key k may come from
RowsOf(k) ==
    UNION {{r \in StoredRows(g) :
                k = (IF op = "list_tags" THEN Qualified(g, r["NAME"]) ELSE r["NAME"])} :
           g \in Groups(CalledMap)}

\* C9: with a non-empty attribute list A, every entry list_tags and
\* read_tag_attributes return has exactly the names of A and 'HasChildren'
\* (False) as its keys: a canonical name carries the value of its native
\* column, a native name its own value, and the NAME column fetched for the
\* keys is absent unless 'NAME' is in A.
C9_EntryKeysAreAsked ==
    (Listing /\ AskedAttrs # <<>>)
        => \A k \in DOMAIN result :
              /\ DOMAIN result[k] = Range(AskedAttrs) \cup {"HasChildren"}
              /\ result[k]["HasChildren"] = PyFalse
              /\ \E r \in RowsOf(k) :
                    \A a \in Range(AskedAttrs) : result[k][a] = r[NativeOf(a)]

\* Description asked alone: the entry holds it and HasChildren, and no NAME
C9_Witness ==
    /\ Listing
    /\ AskedAttrs = <<"Description">>
    /\ \E k \in DOMAIN result :
          /\ "NAME" \notin DOMAIN result[k]
          /\ result[k]["Description"] = <<"F", "C">>

\* every column is asked for: include_attributes=True, attributes None or []
AllColumns ==
    /\ Listing
    /\ IF op = "list_tags"
       THEN args.include_attributes.kind = "bool" /\ args.include_attributes.flag
       ELSE args.attributes.kind = "none"
            \/ (args.attributes.kind = "list" /\ args.attributes.val = <<>>)

\* C10: when all columns are asked for without an attribute list, every entry
\* holds the native columns, HasChildren=False and all seven canonical fields;
\* a canonical field has the value of its native column when the backend
\* returned that column, and is None when it did not.
C10_AllCanonicalFields ==
    AllColumns
        => \A k \in DOMAIN result :
              /\ DOMAIN result[k] =
                    Range(TableColumns) \cup Range(StandardAttrs) \cup {"HasChildren"}
              /\ result[k]["HasChildren"] = PyFalse
              /\ \E r \in RowsOf(k) :
                    /\ \A c \in Range(TableColumns) : result[k][c] = r[c]
                    /\ \A a \in Range(StandardAttrs) :
                          result[k][a] = IF NativeOf(a) \in Range(TableColumns)
                                         THEN r[NativeOf(a)]
                                         ELSE PyNone

\* read_tag_attributes with no attribute list: Path, whose column IP_DCS_NAME
\* the tables lack, is None, and Description is the native description
C10_Witness ==
    /\ AllColumns
    /\ op = "read_tag_attributes"
    /\ \E k \in DOMAIN result :
          /\ result[k]["Path"] = PyNone
          /\ result[k]["Description"] = <<"F", "C">>

LimitedList ==
    /\ op = "list_tags"
    /\ outcome = "ok"
    /\ args.max_results > 0

\* the names of group g that the result holds an entry for
ReturnedNames(g) == {n \in StoredNames(g) : Qualified(g, n) \in DOMAIN result}

\* C11: list_tags with max_results = n > 0 returns, for each queried group, the
\* first min(n, number of matching tags) matching tags in ascending name order
\* (all of them when n is at least their number), in both dialects, for every
\* include_attributes, also when the table holds several rows per tag name.
C11_FirstTagsByName ==
    LimitedList
        => \A g \in Groups(CalledMap) :
              LET sorted == SortNames(Selected(g))
                  k == IF args.max_results < Len(sorted) THEN args.max_results ELSE Len(sorted)
              IN  ReturnedNames(g) = {sorted[i] : i \in 1..k}

\* a period read of recorded values (no time frequency) that reached the backend
RecordedRead ==
    /\ op = "read_tag_values_period"
    /\ outcome # "PreconditionError"
    /\ args.result_format = "dataframe"
    /\ FreqOf(args.time_frequency) = PyNone

\* the group keys of the requested tags, each at its first occurrence
RECURSIVE FirstSeen(_)
FirstSeen(s) ==
    IF s = <<>> THEN <<>>
    ELSE LET front == FirstSeen(SubSeq(s, 1, Len(s) - 1))
             last == s[Len(s)]
         IN  IF \E i \in 1..Len(front) : front[i] = last THEN front ELSE Append(front, last)

RequestedGroups ==
    FirstSeen([i \in 1..Len(args.tags) |-> SplitTag(FqnTag(default_group, args.tags[i]))[1]])

IsStep(e) == e.ev \in {"callback", "execute", "fetch"}
StepOf(e) == [ev |-> e.ev, grp |-> e.grp]
StepNames == <<"callback", "execute", "fetch">>

\* callback(g1), execute(g1), fetch(g1), callback(g2), ... over the groups
ExpectedSteps(groups) ==
    [i \in 1..(3 * Len(groups)) |->
        [ev |-> StepNames[((i - 1) % 3) + 1], grp |-> groups[((i - 1) \div 3) + 1]]]

\* C12: in a period read given a progress callback, the callback is invoked once
\* per resolved group, immediately before the group's query is executed and
\* after the previous group's rows were fetched, the groups in first-seen
\* order: callback(g1), execute(g1), fetch(g1), callback(g2), ...; a read
\* that fails at a query stops at that query's execute.
C12_CallbackBeforeEachGroup ==
    (RecordedRead /\ args.progress_callback)
        => LET steps == SelectSeq(log, IsStep)
               got == [i \in 1..Len(steps) |-> StepOf(steps[i])]
               expected == ExpectedSteps(RequestedGroups)
           IN  /\ IF outcome = "ProgrammingError"
                  THEN /\ Len(got) % 3 = 2
                       /\ Len(got) <= Len(expected)
                       /\ got = SubSeq(expected, 1, Len(got))
                  ELSE got = expected
               /\ \A i \in 1..Len(log) :
                     log[i].ev = "callback"
                        => /\ i < Len(log)
                           /\ log[i + 1].ev = "execute"
                           /\ log[i + 1].grp = log[i].grp

\* a read of two groups that succeeds: the default group's callback, then h's
C12_Witness ==
    /\ RecordedRead
    /\ args.progress_callback
    /\ outcome = "ok"
    /\ db = DemoTables
    /\ RequestedGroups = <<GroupG, GroupH>>
    /\ \E i, j \in 1..Len(log) :
          /\ i < j
          /\ log[i] = Event("callback", GroupG)
          /\ log[j] = Event("callback", GroupH)

MultiGroupOps == {"list_tags", "read_tag_attributes", "read_tag_values_period"}

\* a call that went through the groups one query each (the period read: of
\* recorded values)
GroupCall ==
    /\ op \in MultiGroupOps
    /\ outcome # "PreconditionError"
    /\ op = "read_tag_values_period" => RecordedRead

\* the groups of the call in resolution order
CallGroups ==
    FirstSeen([i \in 1..Len(CalledTags) |-> SplitTag(FqnTag(default_group, CalledTags[i]))[1]])

IsExecute(e) == e.ev = "execute"
IsFetch(e) == e.ev = "fetch"

\* C13: in a multi-group call (list_tags, read_tag_attributes,
\* read_tag_values_period), when the query of a group fails the whole call
\* fails with that error: nothing built from the groups already processed is
\* returned, no query is issued for the groups that remain, and the failed
\* query is executed once, never again; so a call that returns has queried
\* every group with success.
C13_NoPartialSuccess ==
    GroupCall
        => LET executed == SelectSeq(log, IsExecute)
               fetched == SelectSeq(log, IsFetch)
           IN  /\ outcome = "ProgrammingError"
                     => /\ result = PyNone
                        /\ Len(executed) >= 1
                        /\ Len(executed) <= Len(CallGroups)
                        /\ \A i \in 1..Len(executed) : executed[i].grp = CallGroups[i]
                        /\ Len(fetched) = Len(executed) - 1
                        /\ log[Len(log)].ev = "execute"
               /\ outcome = "ok"
                     => /\ \A g \in Range(CallGroups) : g \in DOMAIN db
                        /\ Len(executed) = Len(CallGroups)
                        /\ Len(fetched) = Len(CallGroups)

\* the second group's query fails after the first group's rows were fetched
C13_Witness ==
    /\ GroupCall
    /\ outcome = "ProgrammingError"
    /\ result = PyNone
    /\ Len(CallGroups) = 2
    /\ CallGroups[1] \in DOMAIN db
    /\ Len(SelectSeq(log, IsExecute)) = 2
    /\ Len(SelectSeq(log, IsFetch)) = 1

\* the connection string names SQL Server, in whatever case: a standard
\* connection; any other is a native-historian connection
StandardConnection == conn_string = <<"S", "Q", "L", " ", "S", "e", "r", "v", "e", "r">>

ExpectedLimit ==
    IF args.max_results <= 0 THEN "none"
    ELSE IF StandardConnection THEN "TOP"
    ELSE "SET MAX_ROWS"

\* the rows of group g that the read's query of g matches, in its time window
MatchingRows(g) ==
    {i \in 1..Len(db[g].rows) :
        /\ \E j \in 1..Len(TagsOf(CalledMap, g)) :
              Like(db[g].rows[i]["NAME"], TagsOf(CalledMap, g)[j] \o <<"%">>)
        /\ args.first_timestamp # PyNone
              => TimeOf(db[g].rows[i]["IP_TREND_TIME"]) >= TimeOf(args.first_timestamp)
        /\ args.last_timestamp # PyNone
              => TimeOf(db[g].rows[i]["IP_TREND_TIME"]) <= TimeOf(args.last_timestamp)}

\* the rows the read is to get of group g
RowsDue(g) ==
    IF args.max_results > 0 /\ args.max_results < Cardinality(MatchingRows(g))
    THEN args.max_results
    ELSE Cardinality(MatchingRows(g))

RECURSIVE TotalDue(_)
TotalDue(groups) ==
    IF groups = <<>> THEN 0 ELSE RowsDue(Head(groups)) + TotalDue(Tail(groups))

\* the values the returned table holds: one per fetched row
ValuesHeld == Cardinality({p \in DOMAIN result.cells : result.cells[p] # PyNone})

\* C14: for each group query of a period read the row limit is chosen by the
\* dialect and max_results only.  max_results > 0 on a native-historian
\* connection: the statement is prefixed by SET MAX_ROWS n, the cursor is
\* advanced to the next result set once, after execute and before fetch, no TOP
\* is used, and a group gives n rows when at least n match.  max_results > 0
\* on a standard connection: TOP n, the cursor never advanced.
\* max_results <= 0: neither, the cursor never advanced, all matching rows.
C14_LimitByDialect ==
    RecordedRead
        => /\ \A i \in 1..Len(log) :
                 /\ log[i].ev = "execute" => log[i].limit = ExpectedLimit
                 /\ log[i].ev = "nextset"
                       => /\ ExpectedLimit = "SET MAX_ROWS"
                          /\ i > 1 /\ log[i - 1].ev = "execute" /\ log[i - 1].grp = log[i].grp
                          /\ i < Len(log) /\ log[i + 1].ev = "fetch" /\ log[i + 1].grp = log[i].grp
                 /\ log[i].ev = "fetch"
                       => /\ i > 1
                          /\ log[i - 1].grp = log[i].grp
                          /\ log[i - 1].ev =
                                IF ExpectedLimit = "SET MAX_ROWS" THEN "nextset" ELSE "execute"
           /\ outcome = "ok" => ValuesHeld = TotalDue(CallGroups)

\* max_results = 1 on a native connection, a group with more matching rows:
\* SET MAX_ROWS, one nextset, one row
C14_Witness ==
    /\ RecordedRead
    /\ outcome = "ok"
    /\ ~StandardConnection
    /\ args.max_results = 1
    /\ CallGroups = <<GroupG>>
    /\ Cardinality(MatchingRows(GroupG)) >= 2
    /\ ValuesHeld = 1
    /\ \E i \in 1..Len(log) : log[i] = Event("nextset", GroupG)
    /\ \E i \in 1..Len(log) : log[i] = LimitedEvent("execute", GroupG, "SET MAX_ROWS")

\* a fetched row: its group and its place in the group's table
FetchedRows ==
    UNION {{<<g, i>> : i \in MatchingRows(g)} : g \in Range(CallGroups)}

\* two fetched rows with one timestamp for one tag name
Tied(r1, r2) ==
    /\ r1 # r2
    /\ db[r1[1]].rows[r1[2]]["NAME"] = db[r2[1]].rows[r2[2]]["NAME"]
    /\ db[r1[1]].rows[r1[2]]["IP_TREND_TIME"] = db[r2[1]].rows[r2[2]]["IP_TREND_TIME"]

\* an unlimited read of recorded values, every group's query answered
UnlimitedRead ==
    /\ RecordedRead
    /\ args.max_results <= 0
    /\ CallGroups # <<>>
    /\ \A g \in Range(CallGroups) : g \in DOMAIN db

\* C15: the period read does no de-duplication and keeps duplicates: when the
\* fetched rows hold two rows with one timestamp for one short tag name (a tie
\* within a group, or one tag name in two requested groups),
\* read_tag_values_period returns a table that keeps both rows; it neither
\* drops one nor fails.
C15_DuplicatesPreserved ==
    UnlimitedRead
        => \A r1, r2 \in FetchedRows :
              Tied(r1, r2)
                 => /\ outcome = "ok"
                    /\ \E i, j \in 1..Len(result.index) :
                          /\ i < j
                          /\ result.index[i] = db[r1[1]].rows[r1[2]]["IP_TREND_TIME"]
                          /\ result.index[j] = result.index[i]

====
